---- MODULE Spec2Model ----
(***************************************************************************)
(* prometheus-expvar-proxy (src/main.go): an HTTP handler that fetches a   *)
(* Go expvar JSON document from the target named by the request, flattens  *)
(* its numeric and boolean fields into sanitized metric names and renders  *)
(* them as sorted "name value" lines.                                      *)
(*                                                                         *)
(* Strings are sequences of characters; a character is a one-token string  *)
(* whose code point is given by CodePoint.  JSON numbers are integers      *)
(* (the integer-valued float64 values).                                    *)
(***************************************************************************)
EXTENDS Integers, Sequences, FiniteSets, TLC

VARIABLES
    pc,          \* pc[h]: where handler goroutine h is: "idle" or "reading"
    upstream,    \* upstream[h]: index in Bodies of the response h's GET obtained (0: none)
    out,         \* out[h]: what h's last ServeHTTP call wrote to its ResponseWriter
    openBodies,  \* number of upstream resp.Body readers obtained and not closed
    sIn, sOut, sTwice,   \* the Name Sanitizer's input, result, and result applied again
    rIn, rOut,           \* the repair pass's input body and repaired body
    fTree, fOut          \* the Value Flattener's input object and its result

vars == <<pc, upstream, out, openBodies, sIn, sOut, sTwice, rIn, rOut, fTree, fOut>>

----------------------------------------------------------------------------
(* Characters *)

BS == "\\"
DQ == "\""
LF == "\n"
TAB == "\t"
CR == "\r"
FF == "\f"
BSP == "U+0008"
NonAscii == "U+00E9"

CodePoint ==
    (BSP :> 8) @@ (TAB :> 9) @@ (LF :> 10) @@ (FF :> 12) @@ (CR :> 13) @@ (" " :> 32) @@ (DQ :> 34) @@ ("," :> 44) @@ ("-" :> 45) @@
    ("." :> 46) @@ ("/" :> 47) @@ ("0" :> 48) @@ ("1" :> 49) @@ ("2" :> 50) @@
    ("3" :> 51) @@ ("4" :> 52) @@ ("5" :> 53) @@ ("6" :> 54) @@ ("7" :> 55) @@
    ("8" :> 56) @@ ("9" :> 57) @@ (":" :> 58) @@ ("?" :> 63) @@ ("A" :> 65) @@
    ("B" :> 66) @@ ("Z" :> 90) @@ ("[" :> 91) @@ (BS :> 92) @@ ("]" :> 93) @@
    ("_" :> 95) @@ ("a" :> 97) @@ ("b" :> 98) @@ ("c" :> 99) @@ ("e" :> 101) @@
    ("f" :> 102) @@ ("j" :> 106) @@ ("l" :> 108) @@ ("n" :> 110) @@
    ("o" :> 111) @@ ("r" :> 114) @@ ("s" :> 115) @@ ("t" :> 116) @@
    ("u" :> 117) @@ ("x" :> 120) @@ ("z" :> 122) @@ ("{" :> 123) @@
    ("}" :> 125) @@ (NonAscii :> 233)

\* unicode.MaxASCII
MaxASCII == 127

IsAscii(s) == \A i \in 1..Len(s) : CodePoint[s[i]] <= MaxASCII

----------------------------------------------------------------------------
(* Name Sanitizer *)

\* The mapping function handed to strings.Map: the replacement rune, or
\* "panic" for a rune above unicode.MaxASCII.
MapRune(r) ==
    LET c == CodePoint[r] IN
    IF c >= 97 /\ c <= 122 THEN r
    ELSE IF c >= 65 /\ c <= 90 THEN r
    ELSE IF c >= 48 /\ c <= 57 THEN r
    ELSE IF r = "_" \/ r = ":" THEN r
    ELSE IF c > MaxASCII THEN "panic"
    ELSE "_"

\* A plausible slip: every character outside [a-zA-Z0-9_:] is deleted
\* instead of replaced.
RECURSIVE SanitizeDropping(_)
SanitizeDropping(n) ==
    IF n = <<>> THEN [panic |-> FALSE, name |-> <<>>]
    ELSE LET m == MapRune(Head(n))
             rest == SanitizeDropping(Tail(n))
         IN IF m = "panic" \/ rest.panic THEN [panic |-> TRUE, name |-> <<>>]
            ELSE IF m = Head(n) THEN [panic |-> FALSE, name |-> <<m>> \o rest.name]
            ELSE rest

\* strings.Map applies the mapping to each rune in order and panics at the
\* first non-ASCII rune.
RECURSIVE MapRunes(_)
MapRunes(n) ==
    IF n = <<>> THEN [panic |-> FALSE, name |-> <<>>]
    ELSE LET m == MapRune(Head(n)) IN
         IF m = "panic" THEN [panic |-> TRUE, name |-> <<>>]
         ELSE LET rest == MapRunes(Tail(n)) IN
              IF rest.panic THEN rest
              ELSE [panic |-> FALSE, name |-> <<m>> \o rest.name]

sanitizeMetricName(n) == MapRunes(n)

----------------------------------------------------------------------------
(* The Name Sanitizer on its own: every string up to MaxLen over SanAlphabet *)

MaxLen == 3

SanAlphabet == {"a", "Z", "5", "_", ":", "-", "/", " ", NonAscii}

Strings(A, n) == UNION {[1..k -> A] : k \in 0..n}

NotRun == [done |-> FALSE, panic |-> FALSE, name |-> <<>>]

FlatNotRun == [done |-> FALSE, panic |-> FALSE, mm |-> <<>>]

Ran(r) == [done |-> TRUE, panic |-> r.panic, name |-> r.name]

ServerIdle ==
    /\ pc = [h \in {1, 2} |-> "idle"]
    /\ upstream = [h \in {1, 2} |-> 0]
    /\ openBodies = 0

InitSanitize ==
    /\ sIn \in Strings(SanAlphabet, MaxLen)
    /\ sOut = NotRun /\ sTwice = NotRun
    /\ rIn = <<>> /\ rOut = NotRun
    /\ fTree = <<>> /\ fOut = FlatNotRun
    /\ out = <<>>
    /\ ServerIdle

Sanitize ==
    /\ ~sOut.done
    /\ sOut' = Ran(sanitizeMetricName(sIn))
    /\ sTwice' = IF sOut'.panic THEN NotRun ELSE Ran(sanitizeMetricName(sOut'.name))
    /\ UNCHANGED <<pc, upstream, out, openBodies, sIn, rIn, rOut, fTree, fOut>>

NextSanitize == Sanitize

SpecSanitize == InitSanitize /\ [][NextSanitize]_vars

Allowed(r) ==
    r \in {"a", "b", "c", "e", "f", "j", "l", "n", "o", "r", "s", "t", "u", "x", "z",
           "A", "B", "Z", "0", "1", "2", "3", "4", "5", "6", "7", "8", "9", "_", ":"}

\* C6: for every ASCII string s, sanitize(s) has the length of s, each of its
\* characters is the character of s at that position when that one is in
\* [a-zA-Z0-9_:] and '_' otherwise, and sanitize(sanitize(s)) = sanitize(s).
C6_SanitizeShape ==
    (sOut.done /\ IsAscii(sIn)) =>
        /\ ~sOut.panic
        /\ Len(sOut.name) = Len(sIn)
        /\ \A i \in 1..Len(sIn) :
              sOut.name[i] = IF Allowed(sIn[i]) THEN sIn[i] ELSE "_"
        /\ sTwice.done /\ ~sTwice.panic /\ sTwice.name = sOut.name

C6_Witness ==
    /\ sOut.done /\ IsAscii(sIn) /\ Len(sIn) = MaxLen
    /\ \E i \in 1..Len(sIn) : ~Allowed(sIn[i])
    /\ \E i \in 1..Len(sIn) : Allowed(sIn[i])

----------------------------------------------------------------------------
(* The Collector's pre-parse repair pass *)

\* Whether the regular expression \\x.. matches at the head of b: a
\* backslash, an 'x', and two characters matched by '.', which (without the
\* s flag) matches every character except a line feed.
MatchesAtHead(b) ==
    /\ Len(b) >= 4
    /\ b[1] = BS /\ b[2] = "x"
    /\ b[3] # LF /\ b[4] # LF

\* A narrower pattern, \\x[0-9a-f]{2}: only hexadecimal escapes are repaired.
HexDigit(r) == r \in {"0", "1", "2", "3", "4", "5", "6", "7", "8", "9",
                      "a", "b", "c", "e", "f"}

RECURSIVE ReplaceHexOnly(_)
ReplaceHexOnly(b) ==
    IF b = <<>> THEN <<>>
    ELSE IF MatchesAtHead(b) /\ HexDigit(b[3]) /\ HexDigit(b[4])
         THEN <<"?">> \o ReplaceHexOnly(SubSeq(b, 5, Len(b)))
         ELSE <<Head(b)>> \o ReplaceHexOnly(Tail(b))

\* re.ReplaceAllFunc(body, func -> "?"): the leftmost non-overlapping
\* matches, scanning left to right, each replaced by a single '?'.
RECURSIVE ReplaceAll(_)
ReplaceAll(b) ==
    IF b = <<>> THEN <<>>
    ELSE IF MatchesAtHead(b)
         THEN <<"?">> \o ReplaceAll(SubSeq(b, 5, Len(b)))
         ELSE <<Head(b)>> \o ReplaceAll(Tail(b))

MaxBodyLen == 5

RepairAlphabet == {BS, "x", LF, "a", "?"}

InitRepair ==
    /\ rIn \in Strings(RepairAlphabet, MaxBodyLen)
    /\ rOut = NotRun
    /\ sIn = <<>> /\ sOut = NotRun /\ sTwice = NotRun
    /\ fTree = <<>> /\ fOut = FlatNotRun
    /\ out = <<>>
    /\ ServerIdle

Repair ==
    /\ ~rOut.done
    /\ rOut' = [done |-> TRUE, panic |-> FALSE, name |-> ReplaceAll(rIn)]
    /\ UNCHANGED <<pc, upstream, out, openBodies, sIn, sOut, sTwice, rIn, fTree, fOut>>

NextRepair == Repair

SpecRepair == InitRepair /\ [][NextRepair]_vars

\* A position of b at which a backslash is immediately followed by an 'x'
\* and two further characters, whatever they are.
EscapeAt(b, i) == i + 3 <= Len(b) /\ b[i] = BS /\ b[i + 1] = "x"

\* The same, with neither of the two further characters a line feed.
EscapeOnLineAt(b, i) == EscapeAt(b, i) /\ b[i + 2] # LF /\ b[i + 3] # LF

\* C8 as stated: the repaired body has no backslash-x followed by two
\* further characters, whatever those two characters are.
C8_NoEscapeLeft ==
    rOut.done => \A i \in 1..Len(rOut.name) : ~EscapeAt(rOut.name, i)

\* C8 amended: the repaired body has no backslash-x followed by two further
\* characters neither of which is a line feed; a body without such an
\* occurrence is handed on unchanged, and each replacement shortens the
\* body by three characters.
C8_NoEscapeLeftOnLine ==
    rOut.done =>
        /\ \A i \in 1..Len(rOut.name) : ~EscapeOnLineAt(rOut.name, i)
        /\ (\A i \in 1..Len(rIn) : ~EscapeOnLineAt(rIn, i)) => rOut.name = rIn
        /\ (\E i \in 1..Len(rIn) : EscapeOnLineAt(rIn, i)) =>
              /\ Len(rOut.name) < Len(rIn)
              /\ (Len(rIn) - Len(rOut.name)) % 3 = 0
              /\ \E i \in 1..Len(rOut.name) : rOut.name[i] = "?"

C8_Witness ==
    /\ rOut.done
    /\ \E i \in 1..Len(rIn) : EscapeOnLineAt(rIn, i) /\ rIn[i + 2] = "?"
    /\ Len(rOut.name) = Len(rIn) - 3

----------------------------------------------------------------------------
(* Value Flattener *)

\* The values json.Unmarshal stores in an interface{}: float64, bool,
\* string, []interface{}, map[string]interface{} and nil.
Number(n) == [kind |-> "float64", num |-> n, bool |-> FALSE, obj |-> <<>>]
Bool(b) == [kind |-> "bool", num |-> 0, bool |-> b, obj |-> <<>>]
String == [kind |-> "string", num |-> 0, bool |-> FALSE, obj |-> <<>>]
Array == [kind |-> "array", num |-> 0, bool |-> FALSE, obj |-> <<>>]
Nil == [kind |-> "nil", num |-> 0, bool |-> FALSE, obj |-> <<>>]
Object(m) == [kind |-> "map", num |-> 0, bool |-> FALSE, obj |-> m]

\* map[string]float64: a function from names to values.
EmptyMap == <<>>

Put(mm, name, v) ==
    [n \in DOMAIN mm \cup {name} |-> IF n = name THEN v ELSE mm[n]]

valToFloat(v) ==
    IF v.kind = "float64" THEN v.num
    ELSE IF v.bool THEN 1 ELSE 0

Returned(mm) == [panic |-> FALSE, mm |-> mm]
Panicked == [panic |-> TRUE, mm |-> EmptyMap]

\* A plausible slip: a string value is stored as 0 instead of being dropped.
storeStrings(mm, name, v) ==
    IF v.kind = "float64" THEN Put(mm, name, v.num)
    ELSE IF v.kind = "bool" THEN Put(mm, name, valToFloat(v))
    ELSE IF v.kind = "string" THEN Put(mm, name, 0)
    ELSE mm

\* The type switch of collectMetrics on a value that is not a map: a float64
\* or a bool is stored under the name; a string, a []interface{} and any
\* other value (nil) leave mm as it is.
typeSwitch(mm, name, v) ==
    IF v.kind = "float64" THEN Put(mm, name, v.num)
    ELSE IF v.kind = "bool" THEN Put(mm, name, valToFloat(v))
    ELSE IF v.kind = "string" THEN mm
    ELSE IF v.kind = "array" THEN mm
    ELSE mm

\* A plausible slip: the parent path is not carried into the child's key.
childKeyOnly(k, lk) == lk

\* k+"_"+lk
childKey(k, lk) == k \o <<"_">> \o lk

\* collectMetrics(mm, k, v): the set of its possible outcomes, one per order
\* in which the range statement iterates the map.  The name is sanitized
\* before the type switch, so a non-ASCII k panics whatever v is.  A panic
\* unwinds through every enclosing call; what mm then holds is never read.
RECURSIVE collectMetrics(_, _, _)
collectMetrics(mm, k, v) ==
    LET s == sanitizeMetricName(k)
        \* for lk, lv := range v { collectMetrics(mm, k+"_"+lk, lv) }
        \* Over[todo]: the maps reachable once the keys of todo have been
        \* visited, in any order, none of the visits panicking.
        Over[todo \in SUBSET DOMAIN v.obj] ==
            IF todo = {} THEN {mm}
            ELSE UNION {
                   UNION { IF r.panic THEN {}
                           ELSE {r.mm} :
                           r \in UNION { collectMetrics(m, childKey(k, lk), v.obj[lk]) :
                                         m \in Over[todo \ {lk}] } } :
                   lk \in todo }
    IN
    IF s.panic THEN {Panicked}
    ELSE IF v.kind = "map" THEN
        IF \E lk \in DOMAIN v.obj :
              \E r \in collectMetrics(mm, childKey(k, lk), v.obj[lk]) : r.panic
        THEN {Panicked}
        ELSE {Returned(m) : m \in Over[DOMAIN v.obj]}
    ELSE {Returned(typeSwitch(mm, s.name, v))}

\* mm := make(map[string]float64); for k, v := range vs { collectMetrics(mm, k, v) }
\* over the top-level object vs.
FlattenTop(vs) ==
    LET Over[todo \in SUBSET DOMAIN vs] ==
            IF todo = {} THEN {EmptyMap}
            ELSE UNION {
                   UNION { IF r.panic THEN {} ELSE {r.mm} :
                           r \in UNION { collectMetrics(m, k, vs[k]) :
                                         m \in Over[todo \ {k}] } } :
                   k \in todo }
    IN
    IF \E k \in DOMAIN vs : \E r \in collectMetrics(EmptyMap, k, vs[k]) : r.panic
    THEN {Panicked}
    ELSE {Returned(m) : m \in Over[DOMAIN vs]}

----------------------------------------------------------------------------
(* The Value Flattener on its own: every object with at most MaxLeaves     *)
(* leaves at the paths of FlatPaths                                        *)

MaxLeaves == 2

FlatKeys == {<<"a">>, <<"-">>, <<"_">>}

FlatPaths ==
    {<<k>> : k \in FlatKeys} \cup {<<k, l>> : k, l \in FlatKeys}
    \cup {<<<<NonAscii>>>>, <<<<"a">>, <<NonAscii>>>>, <<<<"a">>, <<"-">>, <<"a">>>>}

FlatLeaves == {Number(7), Bool(TRUE), Bool(FALSE), String, Array, Nil}

IsPrefix(p, q) == Len(p) < Len(q) /\ SubSeq(q, 1, Len(p)) = p

RECURSIVE PathSets(_)
PathSets(n) ==
    IF n = 0 THEN {{}}
    ELSE LET S == PathSets(n - 1) IN
         S \cup {P \cup {p} : P \in S, p \in FlatPaths}

PrefixFree(P) == \A p, q \in P : ~IsPrefix(p, q)

\* The object whose leaves are the values f gives to the paths of its domain.
RECURSIVE Build(_, _)
Build(f, prefix) ==
    LET below == {q \in DOMAIN f : IsPrefix(prefix, q)}
        ks == {q[Len(prefix) + 1] : q \in below}
    IN [k \in ks |-> IF Append(prefix, k) \in DOMAIN f
                     THEN f[Append(prefix, k)]
                     ELSE Object(Build(f, Append(prefix, k)))]

InitFlatten ==
    /\ \E P \in PathSets(MaxLeaves) :
          /\ PrefixFree(P)
          /\ \E f \in [P -> FlatLeaves] : fTree = Build(f, <<>>)
    /\ fOut = FlatNotRun
    /\ sIn = <<>> /\ sOut = NotRun /\ sTwice = NotRun
    /\ rIn = <<>> /\ rOut = NotRun
    /\ out = <<>>
    /\ ServerIdle

Flatten ==
    /\ ~fOut.done
    /\ \E r \in FlattenTop(fTree) :
          fOut' = [done |-> TRUE, panic |-> r.panic, mm |-> r.mm]
    /\ UNCHANGED <<pc, upstream, out, openBodies, sIn, sOut, sTwice, rIn, rOut, fTree>>

NextFlatten == Flatten

SpecFlatten == InitFlatten /\ [][NextFlatten]_vars

\* The entries of obj that are not objects themselves, each with the
\* sequence of raw keys leading to it.
RECURSIVE Entries(_, _)
Entries(obj, prefix) ==
    UNION { IF obj[k].kind = "map"
            THEN Entries(obj[k].obj, Append(prefix, k))
            ELSE {[path |-> Append(prefix, k), val |-> obj[k]]} :
            k \in DOMAIN obj }

RECURSIVE KeysOf(_)
KeysOf(obj) ==
    DOMAIN obj \cup UNION {KeysOf(obj[k].obj) : k \in {l \in DOMAIN obj : obj[l].kind = "map"}}

\* k1 + "_" + ... + "_" + kn
RECURSIVE Join(_)
Join(p) ==
    IF Len(p) = 1 THEN p[1]
    ELSE Join(SubSeq(p, 1, Len(p) - 1)) \o <<"_">> \o p[Len(p)]

MetricEntries(obj) == {e \in Entries(obj, <<>>) : e.val.kind \in {"float64", "bool"}}

DroppedEntries(obj) == {e \in Entries(obj, <<>>) : e.val.kind \in {"string", "array", "nil"}}

SanitizedPath(e) == sanitizeMetricName(Join(e.path)).name

DistinctSanitizedPaths(obj) ==
    \A e1, e2 \in MetricEntries(obj) :
        e1.path # e2.path => SanitizedPath(e1) # SanitizedPath(e2)

MetricValue(v) ==
    IF v.kind = "float64" THEN v.num ELSE IF v.bool THEN 1 ELSE 0

ExpectedMetricSet(obj) ==
    [n \in {SanitizedPath(e) : e \in MetricEntries(obj)} |->
        MetricValue((CHOOSE e \in MetricEntries(obj) : SanitizedPath(e) = n).val)]

\* obj without the entry at path p.
RECURSIVE RemoveAt(_, _)
RemoveAt(obj, p) ==
    IF Len(p) = 1 THEN [k \in DOMAIN obj \ {p[1]} |-> obj[k]]
    ELSE [k \in DOMAIN obj |->
             IF k = p[1] THEN Object(RemoveAt(obj[k].obj, Tail(p))) ELSE obj[k]]

\* C5: for every object whose keys are all ASCII and whose number and
\* boolean leaves have pairwise distinct sanitized paths, flatten returns
\* exactly the map from sanitize(k1_..._kn) to the number, 1 for true and 0
\* for false, over the root-to-leaf paths ending in a number or boolean.
C5_FlattenExact ==
    (/\ fOut.done
     /\ \A k \in KeysOf(fTree) : IsAscii(k)
     /\ DistinctSanitizedPaths(fTree)) =>
        /\ ~fOut.panic
        /\ fOut.mm = ExpectedMetricSet(fTree)

C5_Witness ==
    /\ fOut.done
    /\ \A k \in KeysOf(fTree) : IsAscii(k)
    /\ DistinctSanitizedPaths(fTree)
    /\ \E e1, e2 \in MetricEntries(fTree) :
          /\ Len(e1.path) = 3 /\ e1.val.kind = "float64"
          /\ Len(e2.path) = 2 /\ e2.val = Bool(TRUE)
          /\ <<"-">> \in {e2.path[1], e2.path[2]}
    /\ Cardinality(DOMAIN fOut.mm) = 2

\* C7 as stated: a string, array or null entry never changes the outcome of
\* flatten and never makes it fail, whatever the entry's key is.
C7_DroppedAnyKey ==
    fOut.done =>
        \A e \in DroppedEntries(fTree) :
            /\ [panic |-> fOut.panic, mm |-> fOut.mm] \in FlattenTop(RemoveAt(fTree, e.path))
            /\ FlattenTop(RemoveAt(fTree, e.path)) \subseteq FlattenTop(fTree)

\* C7 amended: a string, array or null entry whose joined path is ASCII is
\* dropped: the outcomes of flatten are those of the object without the
\* entry, and no key of the Metric Set comes from it.
C7_DroppedAsciiKey ==
    fOut.done =>
        \A e \in DroppedEntries(fTree) :
            IsAscii(Join(e.path)) =>
                /\ [panic |-> fOut.panic, mm |-> fOut.mm] \in FlattenTop(RemoveAt(fTree, e.path))
                /\ FlattenTop(RemoveAt(fTree, e.path)) \subseteq FlattenTop(fTree)
                /\ DistinctSanitizedPaths(fTree) /\ ~fOut.panic =>
                      fOut.mm = ExpectedMetricSet(RemoveAt(fTree, e.path))

C7_Witness ==
    /\ fOut.done /\ ~fOut.panic
    /\ \E e \in DroppedEntries(fTree) : IsAscii(Join(e.path)) /\ Len(e.path) = 2
    /\ \E e \in DroppedEntries(fTree) : e.val = Nil
    /\ DOMAIN fOut.mm = {}

----------------------------------------------------------------------------
(* json.Unmarshal(body, &vs) with vs a map[string]interface{}.  The JSON   *)
(* read here is the language of objects, arrays, strings with the          *)
(* single-character escapes, integers, true, false and null; numbers with  *)
(* a fraction or an exponent and \u escapes are not part of the model.     *)

ParseFail == [ok |-> FALSE, val |-> Nil, rest |-> <<>>]

Parsed(v, rest) == [ok |-> TRUE, val |-> v, rest |-> rest]

RECURSIVE SkipWs(_)
SkipWs(b) ==
    IF b # <<>> /\ Head(b) \in {" ", LF, TAB, CR} THEN SkipWs(Tail(b)) ELSE b

StartsWith(b, lit) == Len(b) >= Len(lit) /\ SubSeq(b, 1, Len(lit)) = lit

Drop(b, n) == SubSeq(b, n + 1, Len(b))

Escapes ==
    (DQ :> DQ) @@ (BS :> BS) @@ ("/" :> "/") @@ ("n" :> LF) @@ ("t" :> TAB) @@
    ("r" :> CR) @@ ("f" :> FF) @@ ("b" :> BSP)

\* The characters of a string literal after its opening quote, up to the
\* closing quote: [ok, str, rest].  A control character, or a backslash
\* that does not start an escape, is a syntax error.
RECURSIVE ParseString(_)
ParseString(b) ==
    IF b = <<>> THEN [ok |-> FALSE, str |-> <<>>, rest |-> <<>>]
    ELSE IF Head(b) = DQ THEN [ok |-> TRUE, str |-> <<>>, rest |-> Tail(b)]
    ELSE IF CodePoint[Head(b)] < 32 THEN [ok |-> FALSE, str |-> <<>>, rest |-> <<>>]
    ELSE IF Head(b) = BS THEN
        IF Len(b) >= 2 /\ b[2] \in DOMAIN Escapes
        THEN LET r == ParseString(Drop(b, 2)) IN
             [ok |-> r.ok, str |-> <<Escapes[b[2]]>> \o r.str, rest |-> r.rest]
        ELSE [ok |-> FALSE, str |-> <<>>, rest |-> <<>>]
    ELSE LET r == ParseString(Tail(b)) IN
         [ok |-> r.ok, str |-> <<Head(b)>> \o r.str, rest |-> r.rest]

Digits == <<"0", "1", "2", "3", "4", "5", "6", "7", "8", "9">>

IsDigit(r) == \E i \in 1..10 : Digits[i] = r

DigitValue(r) == (CHOOSE i \in 1..10 : Digits[i] = r) - 1

\* The digits at the head of b, read as a number continuing acc: [num, rest].
RECURSIVE ParseDigits(_, _)
ParseDigits(b, acc) ==
    IF b # <<>> /\ IsDigit(Head(b))
    THEN ParseDigits(Tail(b), 10 * acc + DigitValue(Head(b)))
    ELSE [num |-> acc, rest |-> b]

\* -? (0 | [1-9][0-9]*)
ParseNumber(b) ==
    LET neg == b # <<>> /\ Head(b) = "-"
        c == IF neg THEN Tail(b) ELSE b
    IN IF c = <<>> \/ ~IsDigit(Head(c)) THEN ParseFail
       ELSE LET d == IF Head(c) = "0" THEN [num |-> 0, rest |-> Tail(c)]
                     ELSE ParseDigits(c, 0)
            IN Parsed(Number(IF neg THEN 0 - d.num ELSE d.num), d.rest)

RECURSIVE ParseValue(_), ParseMembers(_, _), ParseElements(_)
ParseValue(b0) ==
    LET b == SkipWs(b0) IN
    IF b = <<>> THEN ParseFail
    ELSE IF Head(b) = "{" THEN
        LET c == SkipWs(Tail(b)) IN
        IF c # <<>> /\ Head(c) = "}" THEN Parsed(Object(EmptyMap), Tail(c))
        ELSE ParseMembers(c, EmptyMap)
    ELSE IF Head(b) = "[" THEN
        LET c == SkipWs(Tail(b)) IN
        IF c # <<>> /\ Head(c) = "]" THEN Parsed(Array, Tail(c))
        ELSE ParseElements(c)
    ELSE IF Head(b) = DQ THEN
        LET r == ParseString(Tail(b)) IN
        IF r.ok THEN Parsed(String, r.rest) ELSE ParseFail
    ELSE IF StartsWith(b, <<"t", "r", "u", "e">>) THEN Parsed(Bool(TRUE), Drop(b, 4))
    ELSE IF StartsWith(b, <<"f", "a", "l", "s", "e">>) THEN Parsed(Bool(FALSE), Drop(b, 5))
    ELSE IF StartsWith(b, <<"n", "u", "l", "l">>) THEN Parsed(Nil, Drop(b, 4))
    ELSE ParseNumber(b)

\* "key" : value ( , "key" : value )* }   A repeated key keeps its last value.
ParseMembers(b, m) ==
    IF b = <<>> \/ Head(b) # DQ THEN ParseFail
    ELSE LET k == ParseString(Tail(b))
             c == SkipWs(k.rest)
         IN IF ~k.ok \/ c = <<>> \/ Head(c) # ":" THEN ParseFail
            ELSE LET v == ParseValue(Tail(c))
                     d == SkipWs(v.rest)
                 IN IF ~v.ok \/ d = <<>> THEN ParseFail
                    ELSE IF Head(d) = "}" THEN Parsed(Object(Put(m, k.str, v.val)), Tail(d))
                    ELSE IF Head(d) = "," THEN ParseMembers(SkipWs(Tail(d)), Put(m, k.str, v.val))
                    ELSE ParseFail

\* value ( , value )* ]
ParseElements(b) ==
    LET v == ParseValue(b)
        d == SkipWs(v.rest)
    IN IF ~v.ok \/ d = <<>> THEN ParseFail
       ELSE IF Head(d) = "]" THEN Parsed(Array, Tail(d))
       ELSE IF Head(d) = "," THEN ParseElements(Tail(d))
       ELSE ParseFail

\* What the body is as a JSON text: "invalid", or the kind of its value.
TopLevel(body) ==
    LET p == ParseValue(body) IN
    IF ~p.ok \/ SkipWs(p.rest) # <<>> THEN "invalid" ELSE p.val.kind

\* err = json.Unmarshal(body, &vs): a syntax error for a text that is not
\* JSON, a type error for an array, string, number or boolean; a JSON null
\* leaves vs nil and is no error.
Unmarshal(body) ==
    LET p == ParseValue(body)
        top == TopLevel(body)
    IN IF top = "invalid" THEN [err |-> TRUE, vs |-> EmptyMap]
       ELSE IF top = "nil" THEN [err |-> FALSE, vs |-> EmptyMap]
       ELSE IF top = "map" THEN [err |-> FALSE, vs |-> p.val.obj]
       ELSE [err |-> TRUE, vs |-> EmptyMap]

----------------------------------------------------------------------------
(* Collector *)

NoError == [failed |-> FALSE, inaccessible |-> FALSE, msg |-> ""]

\* fmt.Errorf("%w; error scraping %q: %w", ErrTargetInaccessible, target, err)
ErrScraping ==
    [failed |-> TRUE, inaccessible |-> TRUE, msg |-> "inaccessible target; error scraping"]

\* fmt.Errorf("%w; error reading body of %q: %w", ErrTargetInaccessible, target, err)
ErrReadingBody ==
    [failed |-> TRUE, inaccessible |-> TRUE, msg |-> "inaccessible target; error reading body of"]

\* fmt.Errorf("error unmarshalling JSON from %q: %v", target, err): the
\* sentinel ErrTargetInaccessible is not wrapped.
ErrUnmarshalling ==
    [failed |-> TRUE, inaccessible |-> FALSE, msg |-> "error unmarshalling JSON from"]

\* collect from the point where io.ReadAll has returned body: the set of
\* outcomes [panic, err, mm], one per iteration order of the maps.
collectBody(body) ==
    LET u == Unmarshal(ReplaceAll(body)) IN
    IF u.err THEN {[panic |-> FALSE, err |-> ErrUnmarshalling, mm |-> EmptyMap]}
    ELSE {[panic |-> r.panic, err |-> NoError, mm |-> r.mm] : r \in FlattenTop(u.vs)}

----------------------------------------------------------------------------
(* Proxy Handler *)

\* Byte-wise order of strings, as Go's < on strings.
StrLess(a, b) ==
    \E i \in 1..Len(b) :
        /\ \A j \in 1..(i - 1) : j <= Len(a) /\ a[j] = b[j]
        /\ \/ i = Len(a) + 1
           \/ i <= Len(a) /\ CodePoint[a[i]] < CodePoint[b[i]]

RECURSIVE Insert(_, _)
Insert(sorted, x) ==
    IF sorted = <<>> THEN <<x>>
    ELSE IF StrLess(x, Head(sorted)) THEN <<x>> \o sorted
    ELSE <<Head(sorted)>> \o Insert(Tail(sorted), x)

\* A plausible slip: the names are rendered in the order maps.Keys gave them.
Unsorted(names) == names

\* sort.Strings(metricNames)
RECURSIVE sortStrings(_)
sortStrings(names) ==
    IF names = <<>> THEN <<>>
    ELSE Insert(sortStrings(Tail(names)), Head(names))

\* maps.Keys(metricMap): the keys in an indeterminate order.
RECURSIVE Orders(_)
Orders(S) ==
    IF S = {} THEN {<<>>}
    ELSE UNION {{<<x>> \o o : o \in Orders(S \ {x})} : x \in S}

RECURSIVE DigitsOf(_)
DigitsOf(n) ==
    IF n < 10 THEN <<Digits[n + 1]>>
    ELSE DigitsOf(n \div 10) \o <<Digits[(n % 10) + 1]>>

\* fmt.Sprintf("%f", v) for an integer-valued v: six fractional digits.
FormatF(v) ==
    (IF v < 0 THEN <<"-">> \o DigitsOf(0 - v) ELSE DigitsOf(v))
    \o <<".", "0", "0", "0", "0", "0", "0">>

\* for _, name := range metricNames { sb.WriteString(fmt.Sprintf("%s %f\n", ...)) }
RECURSIVE writeLines(_, _)
writeLines(names, mm) ==
    IF names = <<>> THEN <<>>
    ELSE Head(names) \o <<" ">> \o FormatF(mm[Head(names)]) \o <<LF>>
         \o writeLines(Tail(names), mm)

NoResponse ==
    [status |-> 0, text |-> <<>>, err |-> "", cause |-> "none", src |-> 0, mm |-> EmptyMap]

\* A plausible slip: the two statuses exchanged.
statusSwapped(cerr) == IF cerr.inaccessible THEN 502 ELSE 504

\* errors.Is(cerr, ErrTargetInaccessible): http.StatusGatewayTimeout,
\* otherwise http.StatusBadGateway.
errorStatus(cerr) == IF cerr.inaccessible THEN 504 ELSE 502

\* p.sendError(wr, statusCode, err): the status and err.Error() as the body.
sendError(statusCode, cerr, cause, src) ==
    [status |-> statusCode, text |-> <<>>, err |-> cerr.msg, cause |-> cause,
     src |-> src, mm |-> EmptyMap]

\* A variant: the panic of sanitizeMetricName recovered in the handler and
\* answered as a bad gateway.
panicAnswered(src) ==
    [status |-> 502, text |-> <<>>, err |-> "non-ascii character is unsupported",
     cause |-> "panic", src |-> src, mm |-> EmptyMap]

\* A panic of sanitizeMetricName unwinds collect and ServeHTTP, neither of
\* which recovers: nothing is written to the ResponseWriter, and net/http
\* recovers the panic in the connection's goroutine and drops the connection.
panicUnwinds(src) ==
    [status |-> 0, text |-> <<>>, err |-> "", cause |-> "panic", src |-> src,
     mm |-> EmptyMap]

\* ServeHTTP from the return of collect: the possible responses.
serveOutcome(c, src) ==
    IF c.panic THEN {panicUnwinds(src)}
    ELSE IF c.err.failed THEN {sendError(errorStatus(c.err), c.err, "unmarshal", src)}
    ELSE {[status |-> 200, text |-> writeLines(sortStrings(names), c.mm), err |-> "",
           cause |-> "ok", src |-> src, mm |-> c.mm] : names \in Orders(DOMAIN c.mm)}

----------------------------------------------------------------------------
(* The server: two handler goroutines, upstream responses from Bodies *)

Handlers == {1, 2}

MaxOpen == 3

Bodies == <<
    \* {"a":{"b":1,"c":true}}
    <<"{", DQ, "a", DQ, ":", "{", DQ, "b", DQ, ":", "1", ",", DQ, "c", DQ, ":",
      "t", "r", "u", "e", "}", "}">>,
    \* {"a":"s","b":[1,2],"c":5}
    <<"{", DQ, "a", DQ, ":", DQ, "s", DQ, ",", DQ, "b", DQ, ":", "[", "1", ",", "2", "]",
      ",", DQ, "c", DQ, ":", "5", "}">>,
    \* {"a/b-c":3}
    <<"{", DQ, "a", "/", "b", "-", "c", DQ, ":", "3", "}">>,
    \* not json
    <<"n", "o", "t", " ", "j", "s", "o", "n">>,
    \* {"a":"\xZZ","c":-12}
    <<"{", DQ, "a", DQ, ":", DQ, BS, "x", "Z", "Z", DQ, ",", DQ, "c", DQ, ":",
      "-", "1", "2", "}">>,
    \* {"a":"\x<LF>Z"}
    <<"{", DQ, "a", DQ, ":", DQ, BS, "x", LF, "Z", DQ, "}">>,
    \* null
    <<"n", "u", "l", "l">>,
    \* [1]
    <<"[", "1", "]">>,
    \* 5
    <<"5">>,
    \* "s"
    <<DQ, "s", DQ>>,
    \* {"<U+00E9>":"s","c":5}
    <<"{", DQ, NonAscii, DQ, ":", DQ, "s", DQ, ",", DQ, "c", DQ, ":", "5", "}">>,
    \* {"a":{"<U+00E9>":1}}
    <<"{", DQ, "a", DQ, ":", "{", DQ, NonAscii, DQ, ":", "1", "}", "}">>,
    \* {"1a":1}
    <<"{", DQ, "1", "a", DQ, ":", "1", "}">>,
    \* {"b":2, "a":10, "B":false}
    <<"{", DQ, "b", DQ, ":", "2", ",", " ", DQ, "a", DQ, ":", "1", "0", ",", " ",
      DQ, "B", DQ, ":", "f", "a", "l", "s", "e", "}">>,
    \* {"a-":1,"a_":0}
    <<"{", DQ, "a", "-", DQ, ":", "1", ",", DQ, "a", "_", DQ, ":", "0", "}">>
>>

Init ==
    /\ pc = [h \in Handlers |-> "idle"]
    /\ upstream = [h \in Handlers |-> 0]
    /\ out = [h \in Handlers |-> NoResponse]
    /\ openBodies = 0
    /\ sIn = <<>> /\ sOut = NotRun /\ sTwice = NotRun
    /\ rIn = <<>> /\ rOut = NotRun
    /\ fTree = <<>> /\ fOut = FlatNotRun

\* ServeHTTP is entered and p.Client.Get returns a response: its body is
\* open from here on.  The handler then waits in io.ReadAll.
Get(h) ==
    /\ pc[h] = "idle"
    /\ openBodies < MaxOpen
    /\ \E i \in 1..Len(Bodies) : upstream' = [upstream EXCEPT ![h] = i]
    /\ pc' = [pc EXCEPT ![h] = "reading"]
    /\ out' = [out EXCEPT ![h] = NoResponse]
    /\ openBodies' = openBodies + 1
    /\ UNCHANGED <<sIn, sOut, sTwice, rIn, rOut, fTree, fOut>>

\* ServeHTTP is entered and p.Client.Get fails: collect returns the
\* scraping error and the handler answers it.
GetFails(h) ==
    /\ pc[h] = "idle"
    /\ out' = [out EXCEPT ![h] = sendError(errorStatus(ErrScraping), ErrScraping, "get", 0)]
    /\ UNCHANGED <<pc, upstream, openBodies, sIn, sOut, sTwice, rIn, rOut, fTree, fOut>>

\* io.ReadAll fails: collect returns the reading error, without closing
\* resp.Body, and the handler answers it.
ReadFails(h) ==
    /\ pc[h] = "reading"
    /\ out' = [out EXCEPT ![h] =
                  sendError(errorStatus(ErrReadingBody), ErrReadingBody, "read", upstream[h])]
    /\ pc' = [pc EXCEPT ![h] = "idle"]
    /\ upstream' = [upstream EXCEPT ![h] = 0]
    /\ UNCHANGED <<openBodies, sIn, sOut, sTwice, rIn, rOut, fTree, fOut>>

\* io.ReadAll returns the body: repair, unmarshal, flatten, render, answer.
\* No path of collect or ServeHTTP calls resp.Body.Close().
ReadAll(h) ==
    /\ pc[h] = "reading"
    /\ \E c \in collectBody(Bodies[upstream[h]]) :
          \E r \in serveOutcome(c, upstream[h]) : out' = [out EXCEPT ![h] = r]
    /\ pc' = [pc EXCEPT ![h] = "idle"]
    /\ upstream' = [upstream EXCEPT ![h] = 0]
    /\ UNCHANGED <<openBodies, sIn, sOut, sTwice, rIn, rOut, fTree, fOut>>

Next ==
    \E h \in Handlers : Get(h) \/ GetFails(h) \/ ReadFails(h) \/ ReadAll(h)

Spec == Init /\ [][Next]_vars

----------------------------------------------------------------------------
(* Properties of the server *)

Answered(h) == out[h].cause # "none"

\* The body handler h's collect read, after the repair pass, as JSON.
ReadBody(h) == ReplaceAll(Bodies[out[h].src])

BodyWasRead(h) == Answered(h) /\ out[h].src # 0 /\ out[h].cause # "read"

\* C1 as stated: every request is answered 200, 504 or 502: 200 exactly when
\* collect returned a Metric Set, 504 exactly when the GET or the body read
\* failed, 502 for every other failure of collect.
C1_StatusByOutcomeAlways ==
    \A h \in Handlers :
        Answered(h) =>
            /\ out[h].status = 200 <=> out[h].cause = "ok"
            /\ out[h].status = 504 <=> out[h].cause \in {"get", "read"}
            /\ out[h].status = 502 <=> out[h].cause \notin {"ok", "get", "read"}

\* C1 amended: whenever collect returns, the status is 200 exactly for a
\* returned Metric Set, 504 exactly for a failed GET or body read, and 502
\* exactly for the unmarshalling error (the body was read and is not a JSON
\* object or null); when collect panics no status is written.
C1_StatusByOutcome ==
    \A h \in Handlers :
        Answered(h) =>
            /\ out[h].status = 200 <=> out[h].cause = "ok"
            /\ out[h].status = 504 <=> out[h].cause \in {"get", "read"}
            /\ out[h].status = 502 <=> out[h].cause = "unmarshal"
            /\ out[h].status = 0 <=> out[h].cause = "panic"
            /\ out[h].status \in {502, 504} <=> out[h].err # ""
            /\ (BodyWasRead(h) /\ TopLevel(ReadBody(h)) = "invalid") => out[h].status = 502

C1_Witness ==
    /\ out[1].status = 504 /\ out[1].cause = "read"
    /\ out[2].status = 502 /\ TopLevel(ReadBody(2)) = "invalid"

HasNonAsciiKey(h) ==
    /\ BodyWasRead(h)
    /\ TopLevel(ReadBody(h)) = "map"
    /\ \E k \in KeysOf(Unmarshal(ReadBody(h)).vs) : ~IsAscii(k)

\* C2 as stated: a body that parses as an object with a non-ASCII key is
\* answered 502 with the error text as body.
C2_NonAsciiAnswered502 ==
    \A h \in Handlers :
        HasNonAsciiKey(h) => out[h].status = 502 /\ out[h].err # "" /\ out[h].text = <<>>

\* C2 amended: a body that parses as an object with a non-ASCII key makes
\* sanitizeMetricName panic; the panic unwinds collect and the handler, so
\* no status, no error text and no partial Metric Set is written, and the
\* handler's goroutine is over: the server goes on serving requests.
C2_NonAsciiPanics ==
    \A h \in Handlers :
        HasNonAsciiKey(h) =>
            /\ out[h].cause = "panic"
            /\ out[h].status = 0 /\ out[h].err = "" /\ out[h].text = <<>>
            /\ out[h].mm = EmptyMap
            /\ pc[h] = "idle"

C2_Witness ==
    \E h \in Handlers :
        /\ HasNonAsciiKey(h)
        /\ \E k \in DOMAIN Unmarshal(ReadBody(h)).vs : IsAscii(k)
        /\ pc[h] = "idle"

FirstIndex(t, r) == CHOOSE i \in 1..Len(t) : t[i] = r /\ \A j \in 1..(i - 1) : t[j] # r

\* The lines of a text, each without the line feed that ends it.
RECURSIVE Lines(_)
Lines(t) ==
    IF t = <<>> THEN <<>>
    ELSE IF \A i \in 1..Len(t) : t[i] # LF THEN <<t>>
    ELSE <<SubSeq(t, 1, FirstIndex(t, LF) - 1)>> \o Lines(Drop(t, FirstIndex(t, LF)))

NameOf(line) ==
    IF \E i \in 1..Len(line) : line[i] = " "
    THEN SubSeq(line, 1, FirstIndex(line, " ") - 1)
    ELSE line

ValueOf(line) ==
    IF \E i \in 1..Len(line) : line[i] = " "
    THEN Drop(line, FirstIndex(line, " "))
    ELSE <<>>

\* C3: a 200 response has exactly one line "<name> <value>\n" per key of the
\* Metric Set, the value with six fractional digits, and the lines are in
\* strictly ascending byte-wise order of the names, whatever the order in
\* which the keys came out of the map.
C3_SortedLines ==
    \A h \in Handlers :
        out[h].status = 200 =>
            LET t == out[h].text
                ls == Lines(t)
            IN /\ t = <<>> \/ t[Len(t)] = LF
               /\ Len(ls) = Cardinality(DOMAIN out[h].mm)
               /\ {NameOf(ls[i]) : i \in 1..Len(ls)} = DOMAIN out[h].mm
               /\ \A i \in 1..Len(ls) :
                     /\ ValueOf(ls[i]) = FormatF(out[h].mm[NameOf(ls[i])])
                     /\ Len(ValueOf(ls[i])) >= 8
                     /\ ValueOf(ls[i])[Len(ValueOf(ls[i])) - 6] = "."
               /\ \A i \in 1..(Len(ls) - 1) : StrLess(NameOf(ls[i]), NameOf(ls[i + 1]))

C3_Witness ==
    \E h \in Handlers :
        /\ out[h].status = 200
        /\ DOMAIN out[h].mm = {<<"a">>, <<"b">>, <<"B">>}
        /\ NameOf(Lines(out[h].text)[1]) = <<"B">>

IsLetter(r) ==
    \/ CodePoint[r] >= 97 /\ CodePoint[r] <= 122
    \/ CodePoint[r] >= 65 /\ CodePoint[r] <= 90

\* [a-zA-Z_:][a-zA-Z0-9_:]*
MatchesGrammar(name) ==
    /\ Len(name) >= 1
    /\ IsLetter(name[1]) \/ name[1] \in {"_", ":"}
    /\ \A i \in 2..Len(name) : Allowed(name[i])

\* C4: every key of a Metric Set returned by collect, for an object with
\* ASCII keys, matches [a-zA-Z_:][a-zA-Z0-9_:]*.
C4_NamesMatchGrammar ==
    \A h \in Handlers :
        out[h].status = 200 => \A n \in DOMAIN out[h].mm : MatchesGrammar(n)

\* C9: a body whose top-level JSON value is not an object, or that is not
\* JSON, is answered 502, never 200.
C9_OnlyObjects ==
    \A h \in Handlers :
        (BodyWasRead(h) /\ TopLevel(ReadBody(h)) # "map") => out[h].status = 502

\* C10: whenever no request is in flight, every upstream response body that
\* was obtained has been closed.
C10_BodiesClosed ==
    (\A h \in Handlers : pc[h] = "idle") => openBodies = 0

====
